---- MODULE Spec2Model ----
(***************************************************************************)
(* lathe: log rotation with archival.  A model of rotate_log_files         *)
(* (lathe.py), the process-table queries it uses (processes.py) and the    *)
(* Throttle that paces its drain loop (throttle.py).                       *)
(*                                                                         *)
(* Strings are sequences of tokens, so that name + suffix, path joins and  *)
(* fnmatch are computed and not assumed: <<"a", "S">> is the file name     *)
(* "a" followed by the rotation suffix "S".                                *)
(***************************************************************************)
EXTENDS Integers, Sequences, FiniteSets, TLC

\* ------------------------------------------------------------------------
\* Program constants
\* ------------------------------------------------------------------------
FILE_OPEN_CHECK_INTERVAL == 5

MAX_CHECKS_WITHOUT_FILE_CLOSED == 12

\* Python's None, for the numeric fields that start as None.
None == -1

\* errno values the code tests for.
ESRCH == 3

ENOENT == 2

EPERM == 1

\* errno values of a lockf that finds the lock held (lathe.py:54); EACCES
\* is also what reading a directory without permission ends with.
EACCES == 13

\* ------------------------------------------------------------------------
\* Bounds of the model
\* ------------------------------------------------------------------------
\* Throttle harness: number of wait() calls, and the largest amount the
\* clock advances between two calls.
MaxWaits == 4

MaxAdvance == 6

\* Largest minimum_interval a harness Throttle is constructed with.
MaxInterval == 3

\* ------------------------------------------------------------------------
\* throttle.py
\* ------------------------------------------------------------------------
\* Python truth value of a field holding None or a number (throttle.py:18).
Truthy(x) == x # None /\ x # 0

\* The duration Throttle.wait() passes to sleep, None when it does not sleep.
ThrottleSleep(minimum_interval, last_throttle, now) ==
    IF Truthy(last_throttle)
    THEN LET interval == now - last_throttle
         IN  IF interval < minimum_interval
             THEN minimum_interval - interval
             ELSE None
    ELSE None

\* The value wait() leaves in last_throttle.
ThrottleRecord(now) == now

\* The clock after sleep(d): it advances by d.
AfterSleep(now, d) == IF d = None THEN now ELSE now + d

VARIABLES
    \* --- the Throttle harness (a Throttle driven by a single caller) ---
    t_clock,        \* the time source of the harness
    t_min,          \* test_throttle.minimum_interval
    t_last,         \* test_throttle.last_throttle
    t_call,         \* the last wait(): [n, now, last, slept, returned]
    t_prev_ret,     \* the time the wait() before the last one returned
    \* --- the check_for_open_files harness (one call, followed step by step) ---
    scan            \* the locals of the call, its position and what it has read

\* The variables of the harnesses: no step of rotate_log_files changes them.
tvars == <<t_clock, t_min, t_last, t_call, t_prev_ret, scan>>

NoCall == [n |-> 0, now |-> None, last |-> None, slept |-> None, returned |-> None]

ThrottleInit ==
    /\ t_clock \in 0..1
    /\ t_min \in 1..MaxInterval
    /\ t_last = None
    /\ t_call = NoCall
    /\ t_prev_ret = None

\* One call of wait() by the single caller, after the caller spent e on
\* its own work.
ThrottleWait ==
    /\ t_call.n < MaxWaits
    /\ \E e \in 0..MaxAdvance :
         LET now == t_clock + e
             d   == ThrottleSleep(t_min, t_last, now)
         IN  /\ t_clock' = AfterSleep(now, d)
             /\ t_last' = ThrottleRecord(now)
             /\ t_call' = [n |-> t_call.n + 1, now |-> now, last |-> t_last,
                           slept |-> d, returned |-> AfterSleep(now, d)]
             /\ t_prev_ret' = t_call.returned
    /\ UNCHANGED t_min

\* ------------------------------------------------------------------------
\* Strings, paths and the configuration (options)
\* ------------------------------------------------------------------------
\* os.path.join(directory, name)
Join(directory, name) == directory \o <<"/">> \o name

\* fnmatch.fnmatch(name, pattern) for patterns of literal tokens, ? and *
RECURSIVE fnmatch(_, _)
fnmatch(name, pattern) ==
    IF pattern = <<>> THEN name = <<>>
    ELSE IF Head(pattern) = "*"
         THEN \/ fnmatch(name, Tail(pattern))
              \/ (name # <<>> /\ fnmatch(Tail(name), pattern))
    ELSE IF name = <<>> THEN FALSE
    ELSE /\ (Head(pattern) = "?" \/ Head(pattern) = Head(name))
         /\ fnmatch(Tail(name), Tail(pattern))

options ==
    [ lock_file |-> <<"/run">> \o <<"/">> \o <<"lathe.lock">>,
      log_directory |-> <<"/l">>,
      spool_directory |-> <<"/s">>,
      filename_filter |-> <<"a", "*">>,
      reopen_file_signals |-> [w |-> "HUP", v |-> "USR1"] ]

\* What datetime.now().strftime(options['timestamp_format']) can return
\* during the runs of the model.
Suffixes == {<<"S">>}

GzExt == <<".gz">>

\* The process table of the host.  Process 1 ("w") writes the log file a;
\* process 2 ("v") may hold descriptors that are not files: the kernel
\* names such a target without a directory part (pipe:[n], socket:[n]).
\* check_for_open_files compares the strings it is given with the targets
\* as strings, so such a target is "open" for a file name spelled like it.
PIDs == {1, 2}

Runs == {1, 2}

CommOf(pid) == IF pid = 1 THEN "w" ELSE "v"

LogNameOf(pid) == <<"a">>

ReopensOnSignal(pid) == pid = 1

AnonTargets == {<<"a", "S">>}

Deleted(target) == target \o <<" (deleted)">>

\* The log directories the runs can start from.
InitialDirs ==
    { [n \in D \cup {<<"b">>} |-> IF n = <<"a", "S">> THEN <<"y", "z">>
                                  ELSE IF n = <<"b">> THEN <<"z">> ELSE c]
      : D \in SUBSET {<<"a">>, <<"a", "S">>}, c \in {<<>>, <<"x">>} }

\* ------------------------------------------------------------------------
\* processes.py
\* ------------------------------------------------------------------------
\* process_ids(): the numeric entries of /proc
process_ids(table) == {pid \in DOMAIN table : table[pid].alive}

\* running_processes_by_name(names): name -> pids (a defaultdict: a name
\* without a process maps to no pid)
running_processes_by_name(names, table) ==
    [name \in names |-> {pid \in process_ids(table) : table[pid].comm = name}]

\* Mutant: a file with an open descriptor is reported open and closed.
check_for_open_files_reports_all_closed(filenames, table) ==
    LET targets == UNION {table[pid].fds : pid \in process_ids(table)}
    IN  <<filenames, {f \in filenames : f \in targets}>>

\* check_for_open_files(filenames): <<closed_handles, open_handles>>
check_for_open_files(filenames, table) ==
    LET targets == UNION {table[pid].fds : pid \in process_ids(table)}
        open_handles == {f \in filenames : f \in targets}
    IN  <<filenames \ open_handles, open_handles>>

\* os.listdir('/proc/<pid>/fd'): the errno of its OSError, 0 on success.
\* The directory of a process that has exited is gone; that of a process
\* the caller may not act on (sigok) cannot be read.
os_listdir_fd(pid, table) ==
    IF ~table[pid].alive THEN ENOENT
    ELSE IF ~table[pid].sigok THEN EACCES
    ELSE 0

\* os.readlink('/proc/<pid>/fd/<fd>') of a descriptor listed earlier: the
\* errno of its OSError, 0 on success.
os_readlink(pid, target, table) ==
    IF table[pid].alive /\ target \in table[pid].fds THEN 0 ELSE ENOENT

\* Mutant: no OSError is passed over.
tolerates_nothing(errno) == FALSE

\* "if exc.errno != 2: raise": the errors the scan passes over
tolerates(errno) == errno = ENOENT

\* The errno values of the OSErrors that leave check_for_open_files on the
\* table (none when it returns)
check_for_open_files_errors(table) ==
    {os_listdir_fd(pid, table) : pid \in process_ids(table)}
        \ {errno \in {0, ENOENT, EACCES} : errno = 0 \/ tolerates(errno)}

\* ------------------------------------------------------------------------
\* lathe.py helpers
\* ------------------------------------------------------------------------
\* os.kill(pid, sig): 0 on success, else the errno of the OSError
os_kill(pid, table) ==
    IF ~table[pid].alive THEN ESRCH
    ELSE IF ~table[pid].sigok THEN EPERM
    ELSE 0

\* Mutant: every OSError of os.kill is swallowed.
kill_if_running_swallows_all(pid, table) == 0

\* kill_if_running(pid, signal): the errno of the OSError it lets through,
\* 0 when it returns normally
kill_if_running(pid, table) ==
    LET errno == os_kill(pid, table)
    IN  IF errno # 0 /\ errno # ESRCH THEN errno ELSE 0

\* What gzip.open(path, 'w') has written before any data
GzipHeader == <<"gzip-header">>

\* Mutant: the last block of the content is not written.
Gzip_drops_last_block(content) ==
    GzipHeader \o SubSeq(content, 1, Len(content) - 1) \o <<"gzip-trailer">>

\* gzip: the compressed form of a content, and its inverse
Gzip(content) == GzipHeader \o content \o <<"gzip-trailer">>

Gunzip(data) == SubSeq(data, 2, Len(data) - 1)

\* compress_file(filepath): the path it returns
gzip_path(filepath) == filepath \o GzExt

EAGAIN == 11

\* fcntl.lockf(lock_handle, LOCK_EX | LOCK_NB) by run r: the errno values
\* it can end with, 0 for success.  The lock is held per process.
lockf(r, owner) == IF owner \in {0, r} THEN {0} ELSE {EACCES, EAGAIN}

\* Mutant: the context manager yields True whatever lockf did.
request_lock_always_true(errno) == TRUE

\* request_lock: the value the context manager yields for a lockf errno
request_lock(errno) == errno = 0

\* Mutants: the existence test is missing; the existence test is inverted.
may_rename_unchecked(rotated_name, directory) == TRUE

may_rename_inverted(rotated_name, directory) == rotated_name \in DOMAIN directory

\* The rename phase's test for one candidate: may it be renamed?
may_rename(rotated_name, directory) == rotated_name \notin DOMAIN directory

\* Mutant: the run is abandoned one idle scan early.
gives_up_at_maximum(checks_without_closed_files) ==
    checks_without_closed_files >= MAX_CHECKS_WITHOUT_FILE_CLOSED

\* Mutant: the run is never abandoned.
gives_up_never(checks_without_closed_files) == FALSE

\* The drain loop's give-up test on the updated counter
gives_up(checks_without_closed_files) ==
    checks_without_closed_files > MAX_CHECKS_WITHOUT_FILE_CLOSED

\* ------------------------------------------------------------------------
\* State
\* ------------------------------------------------------------------------
VARIABLES
    lock_owner,     \* the run holding the lock on options.lock_file, or 0
    logdir,         \* options.log_directory: file name -> content
    spool,          \* options.spool_directory: file name -> content
    s3,             \* the bucket: log_name -> content
    procs,          \* the process table: pid -> [alive, comm, sigok, fds, pending]
    clock,          \* time.clock()
    run             \* per invocation of rotate_log_files: its locals, its
                    \* position (pc), its log and what it has done so far

mvars == <<lock_owner, logdir, spool, s3, procs, clock, run>>

vars == <<tvars, mvars>>

Steps == {"stage", "copy", "compress", "copyfileobj", "unlink_raw", "upload", "unlink"}

PastLock == {"resolve", "probe", "list", "rename", "signal", "poll", "ready"} \cup Steps

InitRun ==
    [ pc |-> "start",
      outcome |-> "running",            \* "returned" or "raised" at the end
      exc |-> "none",                   \* the exception that propagated
      raised_at |-> "none",             \* history: the position it was raised at
      log |-> {},                       \* records written to the logger
      acquired |-> "unset",             \* what request_lock yielded
      pids_for_processes |-> [n \in DOMAIN options.reopen_file_signals |-> {}],
      probes |-> {},                    \* history: <<name, pid, errno of os.kill>>
      unkillable_processes |-> {},
      listing |-> <<>>,                 \* history: the directory at candidate selection
      files_to_rotate |-> {},
      rotation_suffix |-> <<>>,
      filename_mapping |-> {},          \* the originals still to iterate
      iterated |-> <<>>,                \* history: [original, rotated, renamed] in loop order
      overwrote |-> FALSE,              \* history: a rename replaced a file
      rotated_files |-> {},
      signalled |-> {},                 \* history: the pids os.kill was called on with the signal
      kill_errnos |-> {},               \* history: the errnos of the OSErrors of those calls
      last_throttle |-> None,           \* throttle_file_checks.last_throttle
      checks_without_closed_files |-> 0,
      polls |-> 0,                      \* history: scans made
      idle |-> 0,                       \* history: consecutive scans without a closed file
      open_files |-> {},
      closed_files |-> {},
      todo |-> {},                      \* closed_files still to iterate
      ready_file |-> <<>>,
      temporary_path |-> <<>>,          \* the directory made by tempfile.mkdtemp(): name -> content
      handed |-> <<>>,                  \* history: file -> times it entered the per-file sequence
      did |-> {} ]                      \* history: <<file, step>> performed, <<file, "failed">>

\* No call of check_for_open_files is being followed.
NoScan ==
    [ status |-> "idle",        \* "scanning", then "returned" or "raised"
      filenames |-> {},         \* the argument
      table |-> <<>>,           \* history: the process table when the call began
      pids |-> {},              \* process_ids() still to visit
      pid |-> 0,                \* the process whose descriptors are being read, or 0
      fds |-> {},               \* os.listdir(fd_directory) still to read
      closed_handles |-> {},
      open_handles |-> {},
      seen |-> {},              \* history: the targets os.readlink returned
      vanished |-> FALSE,       \* history: an ENOENT was met and passed over
      errno |-> 0 ]             \* the errno of the OSError that left the call

\* The harness Throttle before its first wait(), as tests.py sets it up.
ThrottleIdle ==
    /\ t_clock = 1
    /\ t_min = 1
    /\ t_last = None
    /\ t_call = NoCall
    /\ t_prev_ret = None

Init ==
    /\ ThrottleIdle
    /\ scan = NoScan
    /\ lock_owner = 0
    /\ logdir \in InitialDirs
    /\ spool = <<>>
    /\ s3 = <<>>
    /\ procs \in { [pid \in PIDs |->
                      [alive |-> TRUE, comm |-> CommOf(pid), sigok |-> TRUE,
                       fds |-> IF pid = 1
                               THEN {Join(options.log_directory, LogNameOf(pid))}
                                    \cap {Join(options.log_directory, n) : n \in DOMAIN logdir}
                               ELSE anon,
                       pending |-> FALSE]]
                   : anon \in {{}, AnonTargets} }
    /\ clock = 1
    /\ run = [r \in Runs |-> InitRun]

\* ------------------------------------------------------------------------
\* Helpers on the state
\* ------------------------------------------------------------------------
Set(r, rec) == run' = [run EXCEPT ![r] = rec]

Logged(rec, level, msg, args) ==
    rec.log \cup {[level |-> level, msg |-> msg, args |-> args]}

\* Leaving the with block closes the lock file: the lock, if held, is released.
Release(r) == lock_owner' = IF lock_owner = r THEN 0 ELSE lock_owner

Returned(rec) == [rec EXCEPT !.pc = "done", !.outcome = "returned"]

Raised(rec, e) ==
    [rec EXCEPT !.pc = "done", !.outcome = "raised", !.exc = e, !.raised_at = rec.pc]

\* The file system after os.rename(from, to) inside a directory
Renamed(directory, from, to) ==
    [n \in (DOMAIN directory \ {from}) \cup {to} |->
        IF n = to THEN directory[from] ELSE directory[n]]

Unlinked(directory, name) == [n \in DOMAIN directory \ {name} |-> directory[n]]

Written(directory, name, content) ==
    [n \in DOMAIN directory \cup {name} |-> IF n = name THEN content ELSE directory[n]]

\* The process table once pid has exited: it is no longer in /proc.
Exited(table, pid) ==
    [table EXCEPT ![pid] = [@ EXCEPT !.alive = FALSE, !.sigok = TRUE, !.fds = {},
                                     !.pending = FALSE]]

\* The process table once the signal has been delivered to the pids: a
\* process that reopens its log on the signal has it pending.
Delivered(table, pids) ==
    [pid \in DOMAIN table |->
        IF pid \in pids /\ table[pid].alive /\ ReopensOnSignal(pid)
        THEN [table[pid] EXCEPT !.pending = TRUE]
        ELSE table[pid]]

\* The descriptors of every process follow the file they are open on.
Retarget(table, from, to) ==
    [pid \in DOMAIN table |->
        [table[pid] EXCEPT !.fds = {IF t = from THEN to ELSE t : t \in @}]]

\* ------------------------------------------------------------------------
\* rotate_log_files: lock acquisition (lathe.py:48-58, 86-90)
\* ------------------------------------------------------------------------
\* The model follows invocations that overlap: an invocation starts while
\* no invocation that held the lock has ended.  (One that starts later runs
\* alone, as a single invocation does from the directory it finds.)
Overlapping == \A q \in Runs : ~(run[q].pc = "done" /\ run[q].acquired = "yes")

\* Invocations are numbered in the order in which they open the lock file.
InOrder(r) == \A q \in Runs : q < r => run[q].pc # "start"

\* open(lockfile, 'a') fails: the IOError propagates.
OpenLockFileFails(r) ==
    /\ run[r].pc = "start"
    /\ Overlapping
    /\ InOrder(r)
    /\ Set(r, Raised(run[r], "IOError"))
    /\ UNCHANGED <<tvars, lock_owner, logdir, spool, s3, procs, clock>>

\* with request_lock(...) as acquired: the lock is tried without blocking.
RequestLock(r) ==
    /\ run[r].pc = "start"
    /\ Overlapping
    /\ InOrder(r)
    /\ \E errno \in lockf(r, lock_owner) :
         /\ lock_owner' = IF errno = 0 THEN r ELSE lock_owner
         /\ Set(r, [run[r] EXCEPT !.acquired = IF request_lock(errno) THEN "yes" ELSE "no",
                                  !.pc = IF request_lock(errno)
                                         THEN "resolve" ELSE "not_acquired"])
    /\ UNCHANGED <<tvars, logdir, spool, s3, procs, clock>>

\* Mutant: the warning is logged but the run goes on without the lock.
NotAcquired_goes_on(r) ==
    /\ run[r].pc = "not_acquired"
    /\ Set(r, [run[r] EXCEPT !.pc = "resolve", !.log =
                  Logged(run[r], "warning", "Not rotating, previous job still underway", {})])
    /\ UNCHANGED <<tvars, lock_owner, logdir, spool, s3, procs, clock>>

\* if not acquired: warn and return.  Leaving the with block resumes the
\* generator after "yield False", at the bare raise of the except clause:
\* an exception leaves rotate_log_files.  Which one depends on the
\* interpreter's exception state at that point (the IOError of lockf, or a
\* TypeError when no exception is being handled).
NotAcquired(r) ==
    /\ run[r].pc = "not_acquired"
    /\ \E e \in {"IOError", "TypeError"} :
         Set(r, Raised([run[r] EXCEPT !.log =
                  Logged(run[r], "warning", "Not rotating, previous job still underway", {})], e))
    /\ Release(r)
    /\ UNCHANGED <<tvars, logdir, spool, s3, procs, clock>>

\* ------------------------------------------------------------------------
\* rotate_log_files: pre-flight check (lathe.py:92-104)
\* ------------------------------------------------------------------------
\* Mutant: the pids of the pre-flight check are used for the signals.
Resolve_once(r) ==
    /\ run[r].pc \in {"resolve", "rename"}
    /\ run[r].pc = "rename" => run[r].filename_mapping = {}
    /\ Set(r, [run[r] EXCEPT
                 !.pids_for_processes =
                     IF run[r].pc = "resolve"
                     THEN running_processes_by_name(DOMAIN options.reopen_file_signals, procs)
                     ELSE @,
                 !.pc = IF @ = "resolve" THEN "probe" ELSE "signal"])
    /\ UNCHANGED <<tvars, lock_owner, logdir, spool, s3, procs, clock>>

\* running_processes_by_name(...) at either of its two calls
Resolve(r) ==
    /\ run[r].pc \in {"resolve", "rename"}
    /\ run[r].pc = "rename" => run[r].filename_mapping = {}
    /\ Set(r, [run[r] EXCEPT
                 !.pids_for_processes =
                     running_processes_by_name(DOMAIN options.reopen_file_signals, procs),
                 !.pc = IF @ = "resolve" THEN "probe" ELSE "signal"])
    /\ UNCHANGED <<tvars, lock_owner, logdir, spool, s3, procs, clock>>

\* A process listed by process_ids() exits before its comm file is opened:
\* open() raises IOError, which running_processes_by_name does not catch.
ResolveRaises(r) ==
    /\ run[r].pc \in {"resolve", "rename"}
    /\ run[r].pc = "rename" => run[r].filename_mapping = {}
    /\ \E pid \in process_ids(procs) :
         procs' = Exited(procs, pid)
    /\ Set(r, Raised(run[r], "IOError"))
    /\ Release(r)
    /\ UNCHANGED <<tvars, logdir, spool, s3, clock>>

\* The probes with signal 0, and the decision to abort.
Probe(r) ==
    /\ run[r].pc = "probe"
    /\ LET pids == run[r].pids_for_processes
           unkillable == {name \in DOMAIN options.reopen_file_signals :
                            \E pid \in pids[name] : kill_if_running(pid, procs) # 0}
           rec == [run[r] EXCEPT
                     !.probes = UNION {{<<name, pid, os_kill(pid, procs)>> :
                                          pid \in pids[name]} : name \in DOMAIN pids},
                     !.unkillable_processes = unkillable]
       IN  IF unkillable # {}
           THEN /\ Set(r, Returned([rec EXCEPT !.log =
                      Logged(rec, "error", "Cannot send signal to some processes, aborting",
                             unkillable)]))
                /\ Release(r)
           ELSE /\ Set(r, [rec EXCEPT !.pc = "list"])
                /\ UNCHANGED lock_owner
    /\ UNCHANGED <<tvars, logdir, spool, s3, procs, clock>>

\* ------------------------------------------------------------------------
\* rotate_log_files: candidates, suffix and renames (lathe.py:106-127)
\* ------------------------------------------------------------------------
List(r) ==
    /\ run[r].pc = "list"
    /\ \E suffix \in Suffixes :
         LET files == {file \in DOMAIN logdir : fnmatch(file, options.filename_filter)}
         IN  Set(r, [run[r] EXCEPT !.listing = logdir,
                                   !.files_to_rotate = files,
                                   !.rotation_suffix = suffix,
                                   !.filename_mapping = files,
                                   !.rotated_files = {},
                                   !.pc = "rename"])
    /\ UNCHANGED <<tvars, lock_owner, logdir, spool, s3, procs, clock>>

\* One iteration of "for original_name, rotated_name in filename_mapping.items()":
\* a dict gives its items in no particular order.
RenameOne(r) ==
    /\ run[r].pc = "rename"
    /\ \E original_name \in run[r].filename_mapping :
         LET rotated_name == original_name \o run[r].rotation_suffix
             rest == [run[r] EXCEPT
                        !.filename_mapping = @ \ {original_name},
                        !.iterated = Append(@, [original |-> original_name,
                                                rotated |-> rotated_name,
                                                renamed |-> may_rename(rotated_name, logdir)])]
         IN  IF may_rename(rotated_name, logdir)
             THEN IF original_name \in DOMAIN logdir
                  THEN /\ logdir' = Renamed(logdir, original_name, rotated_name)
                       /\ procs' = Retarget(
                            Retarget(procs, Join(options.log_directory, rotated_name),
                                     Deleted(Join(options.log_directory, rotated_name))),
                            Join(options.log_directory, original_name),
                            Join(options.log_directory, rotated_name))
                       /\ Set(r, [rest EXCEPT
                            !.overwrote = @ \/ rotated_name \in DOMAIN logdir,
                            !.rotated_files = @ \cup {rotated_name}])
                       /\ UNCHANGED lock_owner
                  ELSE /\ Set(r, Raised(rest, "OSError"))
                       /\ Release(r)
                       /\ UNCHANGED <<logdir, procs>>
             ELSE /\ Set(r, [rest EXCEPT !.log =
                        Logged(rest, "warning", "Did not rotate file, target already existed",
                               {Join(options.log_directory, rotated_name)})])
                  /\ UNCHANGED <<lock_owner, logdir, procs>>
    /\ UNCHANGED <<tvars, spool, s3, clock>>

\* ------------------------------------------------------------------------
\* rotate_log_files: reopen signals (lathe.py:129-146)
\* ------------------------------------------------------------------------
\* The signals, then the set-up of the drain loop and its first test.
Signal(r) ==
    /\ run[r].pc = "signal"
    /\ LET pids == UNION {run[r].pids_for_processes[n] : n \in DOMAIN options.reopen_file_signals}
           failing == {pid \in pids : kill_if_running(pid, procs) # 0}
       IN  IF failing # {}
           THEN \* an OSError other than ESRCH propagates; the pids
                \* iterated before it have been signalled
                /\ \E before \in SUBSET (pids \ failing), pid \in failing :
                     /\ procs' = Delivered(procs, before)
                     /\ Set(r, Raised([run[r] EXCEPT
                            !.signalled = before \cup {pid},
                            !.kill_errnos = {os_kill(p, procs) : p \in before \cup {pid}} \ {0}],
                          "OSError"))
                /\ Release(r)
           ELSE /\ procs' = Delivered(procs, pids)
                /\ LET rec == [run[r] EXCEPT !.signalled = pids,
                                             !.kill_errnos = {os_kill(p, procs) : p \in pids} \ {0},
                                             !.last_throttle = None,
                                             !.checks_without_closed_files = 0,
                                             !.open_files = run[r].rotated_files]
                   IN  IF rec.open_files # {}
                       THEN Set(r, [rec EXCEPT !.pc = "poll"]) /\ UNCHANGED lock_owner
                       ELSE Set(r, Returned(rec)) /\ Release(r)
    /\ UNCHANGED <<tvars, logdir, spool, s3, clock>>

\* ------------------------------------------------------------------------
\* rotate_log_files: the drain loop (lathe.py:147-172)
\* ------------------------------------------------------------------------
\* The rotated files of a run that a live process holds open, by path.
HeldOpen(files, table) ==
    {f \in files : \E pid \in process_ids(table) :
                      Join(options.log_directory, f) \in table[pid].fds}

\* throttle_file_checks.wait(), then check_for_open_files(open_files)
Poll(r) ==
    /\ run[r].pc = "poll"
    /\ check_for_open_files_errors(procs) = {}
    /\ LET d == ThrottleSleep(FILE_OPEN_CHECK_INTERVAL, run[r].last_throttle, clock)
           result == check_for_open_files(run[r].open_files, procs)
       IN  /\ clock' = AfterSleep(clock, d)
           /\ Set(r, [run[r] EXCEPT !.last_throttle = ThrottleRecord(clock),
                                    !.polls = @ + 1,
                                    !.idle = IF result[1] = {} THEN @ + 1 ELSE 0,
                                    !.closed_files = result[1],
                                    !.open_files = result[2],
                                    !.todo = result[1],
                                    !.pc = "ready"])
    /\ UNCHANGED <<tvars, lock_owner, logdir, spool, s3, procs>>

\* throttle_file_checks.wait(), then check_for_open_files raises: the fd
\* directory of some process cannot be read.  The OSError propagates.
PollRaises(r) ==
    /\ run[r].pc = "poll"
    /\ check_for_open_files_errors(procs) # {}
    /\ LET d == ThrottleSleep(FILE_OPEN_CHECK_INTERVAL, run[r].last_throttle, clock)
       IN  /\ clock' = AfterSleep(clock, d)
           /\ Set(r, Raised([run[r] EXCEPT !.last_throttle = ThrottleRecord(clock),
                                           !.polls = @ + 1], "OSError"))
    /\ Release(r)
    /\ UNCHANGED <<tvars, logdir, spool, s3, procs>>

\* for ready_file in closed_files: the next file (a set has no order)
BeginFile(r) ==
    /\ run[r].pc = "ready"
    /\ \E ready_file \in run[r].todo :
         Set(r, [run[r] EXCEPT !.ready_file = ready_file,
                               !.todo = @ \ {ready_file},
                               !.handed = [f \in DOMAIN @ \cup {ready_file} |->
                                             IF f = ready_file
                                             THEN (IF f \in DOMAIN @ THEN @[f] + 1 ELSE 1)
                                             ELSE @[f]],
                               !.pc = "stage"])
    /\ UNCHANGED <<tvars, lock_owner, logdir, spool, s3, procs, clock>>

Did(rec, step) == [rec EXCEPT !.did = @ \cup {<<rec.ready_file, step>>}]

\* Mutant: the exception is logged and raised again.
Caught_and_raised(rec) ==
    [Did(rec, "failed") EXCEPT
        !.log = Logged(rec, "error", "Unexpected error processing", {rec.ready_file}),
        !.pc = "done", !.outcome = "raised", !.exc = "Exception", !.raised_at = rec.pc]

\* Mutant: the file that failed is put back among the files to process.
Caught_and_requeued(rec) ==
    [Did(rec, "failed") EXCEPT
        !.log = Logged(rec, "error", "Unexpected error processing", {rec.ready_file}),
        !.todo = @ \cup {rec.ready_file},
        !.pc = "ready"]

\* The except clause of the per-file sequence: log, go on with the next file.
Caught(rec) ==
    [Did(rec, "failed") EXCEPT
        !.log = Logged(rec, "error", "Unexpected error processing", {rec.ready_file}),
        !.pc = "ready"]

\* os.stat(ready_path).st_size; when the size is not 0, copy_atomic is
\* entered and makes its temporary directory.
Stage(r) ==
    /\ run[r].pc = "stage"
    /\ LET f == run[r].ready_file
       IN  IF f \notin DOMAIN logdir
           THEN Set(r, Caught(run[r]))
           ELSE IF Len(logdir[f]) > 0
                THEN Set(r, [run[r] EXCEPT !.temporary_path = <<>>, !.pc = "copy"])
                ELSE Set(r, [run[r] EXCEPT !.pc = "compress"])
    /\ UNCHANGED <<tvars, lock_owner, logdir, spool, s3, procs, clock>>

\* The name of the copy inside the temporary directory
temporary_filename == <<"copy_atomic_file">>

\* Mutant: the copy is written under the target name in the spool directory.
CopyToTarget(r) ==
    /\ run[r].pc = "copy"
    /\ LET f == run[r].ready_file
       IN  /\ f \in DOMAIN logdir
           /\ IF f \notin DOMAIN spool
              THEN spool' = Written(spool, f, <<>>)
              ELSE /\ Len(spool[f]) < Len(logdir[f])
                   /\ spool' = Written(spool, f, SubSeq(logdir[f], 1, Len(spool[f]) + 1))
    /\ UNCHANGED <<tvars, lock_owner, logdir, s3, procs, clock, run>>

\* shutil.copy(source, temporary_filename): the file is created empty, then
\* the bytes of the source are written to it one block at a time.
CopyToTemporary(r) ==
    /\ run[r].pc = "copy"
    /\ LET f == run[r].ready_file
           t == run[r].temporary_path
       IN  /\ f \in DOMAIN logdir
           /\ IF temporary_filename \notin DOMAIN t
              THEN Set(r, [run[r] EXCEPT !.temporary_path =
                              Written(t, temporary_filename, <<>>)])
              ELSE /\ Len(t[temporary_filename]) < Len(logdir[f])
                   /\ Set(r, [run[r] EXCEPT !.temporary_path =
                              Written(t, temporary_filename,
                                      SubSeq(logdir[f], 1, Len(t[temporary_filename]) + 1))])
    /\ UNCHANGED <<tvars, lock_owner, logdir, spool, s3, procs, clock>>

\* os.rename(temporary_filename, target), then the finally clause removes
\* the temporary directory.  The rename moves the file in one step when the
\* temporary directory and the spool directory are on one file system, and
\* raises OSError (EXDEV) when they are not.
MoveIntoPlace(r) ==
    /\ run[r].pc = "copy"
    /\ LET f == run[r].ready_file
           t == run[r].temporary_path
       IN  /\ f \in DOMAIN logdir
           /\ temporary_filename \in DOMAIN t
           /\ Len(t[temporary_filename]) = Len(logdir[f])
           /\ \E same_file_system \in BOOLEAN :
                IF same_file_system
                THEN /\ spool' = Written(spool, f, t[temporary_filename])
                     /\ Set(r, [Did(run[r], "staged") EXCEPT !.temporary_path = <<>>,
                                                             !.pc = "compress"])
                ELSE /\ UNCHANGED spool
                     /\ Set(r, Caught([run[r] EXCEPT !.temporary_path = <<>>]))
    /\ UNCHANGED <<tvars, lock_owner, logdir, s3, procs, clock>>

\* compress_file(ready_path), entered: gzip.open(gzip_path, 'w') creates
\* the archive and writes its header, then open(filepath).
Compress(r) ==
    /\ run[r].pc = "compress"
    /\ LET f == run[r].ready_file
       IN  IF f \notin DOMAIN logdir
           THEN \* open(filepath) fails; leaving the with block closes the archive
                /\ logdir' = Written(logdir, gzip_path(f), Gzip(<<>>))
                /\ Set(r, Caught(run[r]))
           ELSE /\ logdir' = Written(logdir, gzip_path(f), GzipHeader)
                /\ Set(r, [run[r] EXCEPT !.pc = "copyfileobj"])
    /\ UNCHANGED <<tvars, lock_owner, spool, s3, procs, clock>>

\* shutil.copyfileobj(raw_file, compressed_file), and the end of the two
\* with blocks: the archive is complete and closed.
CompressCopy(r) ==
    /\ run[r].pc = "copyfileobj"
    /\ LET f == run[r].ready_file
       IN  /\ f \in DOMAIN logdir
           /\ logdir' = Written(logdir, gzip_path(f), Gzip(logdir[f]))
           /\ Set(r, [run[r] EXCEPT !.pc = "unlink_raw"])
    /\ UNCHANGED <<tvars, lock_owner, spool, s3, procs, clock>>

\* os.unlink(filepath); return gzip_path
CompressUnlink(r) ==
    /\ run[r].pc = "unlink_raw"
    /\ LET f == run[r].ready_file
       IN  IF f \notin DOMAIN logdir
           THEN Set(r, Caught(run[r])) /\ UNCHANGED <<logdir, procs>>
           ELSE /\ logdir' = Unlinked(logdir, f)
                /\ procs' = Retarget(procs, Join(options.log_directory, f),
                                     Deleted(Join(options.log_directory, f)))
                /\ Set(r, [Did(run[r], "compressed") EXCEPT !.pc = "upload"])
    /\ UNCHANGED <<tvars, lock_owner, spool, s3, clock>>

\* s3_store.store_file(compressed_path)
Upload(r) ==
    /\ run[r].pc = "upload"
    /\ LET g == gzip_path(run[r].ready_file)
       IN  IF g \notin DOMAIN logdir
           THEN Set(r, Caught(run[r])) /\ UNCHANGED s3
           ELSE /\ s3' = Written(s3, g, logdir[g])
                /\ Set(r, [Did(run[r], "uploaded") EXCEPT !.pc = "unlink"])
    /\ UNCHANGED <<tvars, lock_owner, logdir, spool, procs, clock>>

\* os.unlink(compressed_path)
UnlinkArchive(r) ==
    /\ run[r].pc = "unlink"
    /\ LET g == gzip_path(run[r].ready_file)
       IN  IF g \notin DOMAIN logdir
           THEN Set(r, Caught(run[r])) /\ UNCHANGED logdir
           ELSE /\ logdir' = Unlinked(logdir, g)
                /\ Set(r, [Did(run[r], "deleted") EXCEPT !.pc = "ready"])
    /\ UNCHANGED <<tvars, lock_owner, spool, s3, procs, clock>>

\* Mutant: a failed upload is logged and the sequence goes on with the
\* deletion of the archive.
StepRaises_goes_on(r) ==
    /\ run[r].pc \in Steps
    /\ Set(r, [Caught([run[r] EXCEPT !.temporary_path = <<>>]) EXCEPT
                  !.pc = IF run[r].pc = "upload" THEN "unlink" ELSE "ready"])
    /\ UNCHANGED <<tvars, lock_owner, logdir, spool, s3, procs, clock>>

\* A step of the per-file sequence raises (an I/O error, a failed upload):
\* the except clause catches it.  copy_atomic removes its temporary
\* directory on the way out.  A compression that fails while it copies
\* leaves a truncated archive behind, closed by the with block.
StepRaises(r) ==
    /\ run[r].pc \in Steps
    /\ Set(r, Caught([run[r] EXCEPT !.temporary_path = <<>>]))
    /\ logdir' = IF run[r].pc = "copyfileobj"
                  THEN Written(logdir, gzip_path(run[r].ready_file), Gzip(<<>>))
                  ELSE logdir
    /\ UNCHANGED <<tvars, lock_owner, spool, s3, procs, clock>>

\* The end of one pass of the loop body, when some file was closed: the
\* counter is reset and the loop condition is tested.
CycleWithClosed(r) ==
    /\ run[r].pc = "ready"
    /\ run[r].todo = {}
    /\ Cardinality(run[r].closed_files) # 0
    /\ LET rec == [run[r] EXCEPT !.checks_without_closed_files = 0]
       IN  IF rec.open_files # {}
           THEN Set(r, [rec EXCEPT !.pc = "poll"]) /\ UNCHANGED lock_owner
           ELSE Set(r, Returned(rec)) /\ Release(r)
    /\ UNCHANGED <<tvars, logdir, spool, s3, procs, clock>>

\* The end of one pass when no file was closed and the loop goes on.
CycleWithoutClosed(r) ==
    /\ run[r].pc = "ready"
    /\ run[r].todo = {}
    /\ Cardinality(run[r].closed_files) = 0
    /\ ~gives_up(run[r].checks_without_closed_files + 1)
    /\ LET rec == [run[r] EXCEPT !.checks_without_closed_files = @ + 1]
       IN  IF rec.open_files # {}
           THEN Set(r, [rec EXCEPT !.pc = "poll"]) /\ UNCHANGED lock_owner
           ELSE Set(r, Returned(rec)) /\ Release(r)
    /\ UNCHANGED <<tvars, logdir, spool, s3, procs, clock>>

\* The end of one pass when no file was closed and the counter passes the
\* maximum: the open files are logged and the run returns.
GiveUp(r) ==
    /\ run[r].pc = "ready"
    /\ run[r].todo = {}
    /\ Cardinality(run[r].closed_files) = 0
    /\ gives_up(run[r].checks_without_closed_files + 1)
    /\ LET rec == [run[r] EXCEPT !.checks_without_closed_files = @ + 1]
       IN  Set(r, Returned([rec EXCEPT !.log =
               Logged(rec, "error", "Gave up waiting for files to close", rec.open_files)]))
    /\ Release(r)
    /\ UNCHANGED <<tvars, logdir, spool, s3, procs, clock>>

\* ------------------------------------------------------------------------
\* The environment: the processes of the host, and time
\* ------------------------------------------------------------------------
ProcExit(pid) ==
    /\ procs[pid].alive
    /\ procs' = Exited(procs, pid)
    /\ UNCHANGED <<tvars, lock_owner, logdir, spool, s3, clock, run>>

\* The positions whose next statement signals a process or reads its fd
\* directory.
ReadsCredentials == {"probe", "signal", "poll"}

\* A process changes its credentials: the caller may no longer signal it
\* or read its fd directory.  No other statement of a run depends on the
\* credentials, so the change commutes with every other step; the model
\* takes it when a run is about to meet it.
ProcSetuid(pid) ==
    /\ procs[pid].alive
    /\ procs[pid].sigok
    /\ \E r \in Runs : run[r].pc \in ReadsCredentials
    /\ procs' = [procs EXCEPT ![pid] = [@ EXCEPT !.sigok = FALSE]]
    /\ UNCHANGED <<tvars, lock_owner, logdir, spool, s3, clock, run>>

\* A process closes one of its descriptors.
ProcClose(pid) ==
    /\ procs[pid].alive
    /\ \E t \in procs[pid].fds :
         procs' = [procs EXCEPT ![pid] = [@ EXCEPT !.fds = @ \ {t}]]
    /\ UNCHANGED <<tvars, lock_owner, logdir, spool, s3, clock, run>>

\* The writer handles the reopen signal: it closes its log descriptors and
\* opens its log file by name again, creating it when it is not there.
ProcReopen(pid) ==
    /\ procs[pid].alive
    /\ procs[pid].pending
    /\ LET name == LogNameOf(pid)
       IN  /\ procs' = [procs EXCEPT ![pid] =
                          [@ EXCEPT !.pending = FALSE,
                                    !.fds = {Join(options.log_directory, name)}]]
           /\ logdir' = IF name \in DOMAIN logdir THEN logdir
                        ELSE Written(logdir, name, <<>>)
    /\ UNCHANGED <<tvars, lock_owner, spool, s3, clock, run>>

\* ------------------------------------------------------------------------
\* check_for_open_files, step by step (processes.py:38-69)
\* ------------------------------------------------------------------------
\* The names and targets of the harness: a path of the log directory, the
\* same file after its rename, and a target that is not a path.
ScanTargets ==
    {Join(options.log_directory, <<"a">>), Join(options.log_directory, <<"a", "S">>)}
    \cup AnonTargets

ScanTables ==
    { [pid \in PIDs |-> [alive |-> TRUE, comm |-> CommOf(pid), sigok |-> ok[pid],
                         fds |-> held[pid], pending |-> FALSE]]
      : ok \in [PIDs -> BOOLEAN], held \in [PIDs -> SUBSET ScanTargets] }

\* closed_handles = set(filenames); open_handles = set(); process_ids()
ScanBegin ==
    /\ scan.status = "idle"
    /\ scan' = [scan EXCEPT !.status = "scanning",
                            !.table = procs,
                            !.pids = process_ids(procs),
                            !.closed_handles = scan.filenames,
                            !.open_handles = {}]
    /\ UNCHANGED procs

\* The next pid of the loop and os.listdir(fd_directory)
ScanNextProcess ==
    /\ scan.status = "scanning"
    /\ scan.pid = 0
    /\ \E pid \in scan.pids :
         LET errno == os_listdir_fd(pid, procs)
         IN  scan' = IF errno = 0
                     THEN [scan EXCEPT !.pids = @ \ {pid},
                                       !.fds = procs[pid].fds,
                                       !.pid = IF procs[pid].fds = {} THEN 0 ELSE pid]
                     ELSE IF tolerates(errno)
                     THEN [scan EXCEPT !.pids = @ \ {pid}, !.vanished = TRUE]
                     ELSE [scan EXCEPT !.status = "raised", !.errno = errno]
    /\ UNCHANGED procs

\* os.readlink(fd) of the next descriptor, and the move of its target
\* from closed_handles to open_handles
ScanReadlink ==
    /\ scan.status = "scanning"
    /\ scan.pid # 0
    /\ \E fd_target \in scan.fds :
         LET errno == os_readlink(scan.pid, fd_target, procs)
             rest == [scan EXCEPT !.fds = @ \ {fd_target},
                                  !.pid = IF scan.fds = {fd_target} THEN 0 ELSE @]
         IN  scan' = IF errno = 0
                     THEN IF fd_target \in scan.closed_handles
                          THEN [rest EXCEPT !.seen = @ \cup {fd_target},
                                            !.open_handles = @ \cup {fd_target},
                                            !.closed_handles = @ \ {fd_target}]
                          ELSE [rest EXCEPT !.seen = @ \cup {fd_target}]
                     ELSE IF tolerates(errno)
                     THEN [rest EXCEPT !.vanished = TRUE]
                     ELSE [scan EXCEPT !.status = "raised", !.errno = errno]
    /\ UNCHANGED procs

\* return closed_handles, open_handles
ScanReturn ==
    /\ scan.status = "scanning"
    /\ scan.pid = 0
    /\ scan.pids = {}
    /\ scan' = [scan EXCEPT !.status = "returned"]
    /\ UNCHANGED procs

\* ------------------------------------------------------------------------
\* Specifications
\* ------------------------------------------------------------------------
Next ==
    \/ \E r \in Runs :
         \/ OpenLockFileFails(r)
         \/ RequestLock(r)
         \/ NotAcquired(r)
         \/ Resolve(r)
         \/ ResolveRaises(r)
         \/ Probe(r)
         \/ List(r)
         \/ RenameOne(r)
         \/ Signal(r)
         \/ Poll(r)
         \/ PollRaises(r)
         \/ BeginFile(r)
         \/ Stage(r)
         \/ CopyToTemporary(r)
         \/ MoveIntoPlace(r)
         \/ Compress(r)
         \/ CompressCopy(r)
         \/ CompressUnlink(r)
         \/ Upload(r)
         \/ UnlinkArchive(r)
         \/ StepRaises(r)
         \/ CycleWithClosed(r)
         \/ CycleWithoutClosed(r)
         \/ GiveUp(r)
    \/ \E pid \in PIDs :
         \/ ProcExit(pid)
         \/ ProcSetuid(pid)
         \/ ProcClose(pid)
         \/ ProcReopen(pid)

Spec == Init /\ [][Next]_vars

\* The Throttle alone, driven by a single caller: no invocation of
\* rotate_log_files takes a step.
InitThrottle ==
    /\ ThrottleInit
    /\ scan = NoScan
    /\ lock_owner = 0
    /\ logdir = <<>>
    /\ spool = <<>>
    /\ s3 = <<>>
    /\ procs = [pid \in PIDs |-> [alive |-> FALSE, comm |-> CommOf(pid), sigok |-> TRUE,
                                  fds |-> {}, pending |-> FALSE]]
    /\ clock = 1
    /\ run = [r \in Runs |-> InitRun]

ThrottleNext == ThrottleWait /\ UNCHANGED <<mvars, scan>>

SpecThrottle == InitThrottle /\ [][ThrottleNext]_vars

\* One call of check_for_open_files, on any table and any set of names of
\* the harness, while processes exit and close descriptors.
InitScan ==
    /\ ThrottleIdle
    /\ lock_owner = 0
    /\ logdir = <<>>
    /\ spool = <<>>
    /\ s3 = <<>>
    /\ procs \in ScanTables
    /\ clock = 1
    /\ run = [r \in Runs |-> InitRun]
    /\ scan \in {[NoScan EXCEPT !.filenames = filenames] : filenames \in SUBSET ScanTargets}

ScanNext ==
    \/ (ScanBegin \/ ScanNextProcess \/ ScanReadlink \/ ScanReturn)
          /\ UNCHANGED <<t_clock, t_min, t_last, t_call, t_prev_ret,
                         lock_owner, logdir, spool, s3, clock, run>>
    \/ \E pid \in PIDs : ProcExit(pid) \/ ProcClose(pid)

SpecScan == InitScan /\ [][ScanNext]_vars

\* The same with the clock starting at 1, as the clock of tests.py does.
InitThrottleMock == InitThrottle /\ t_clock = 1

SpecThrottleMock == InitThrottleMock /\ [][ThrottleNext]_vars

\* ========================================================================
\* Properties
\* ========================================================================

HasLog(r, level, msg) == \E l \in run[r].log : l.level = level /\ l.msg = msg

HasLogAbout(r, level, msg, args) ==
    [level |-> level, msg |-> msg, args |-> args] \in run[r].log

\* C1 (as claimed): a run that found the lock held logs a warning and
\* returns normally; no exception leaves rotate_log_files.
C1_LockHeldReturnsNormally ==
    \A r \in Runs :
        (run[r].acquired = "no" /\ run[r].pc = "done") =>
            /\ run[r].outcome = "returned"
            /\ HasLog(r, "warning", "Not rotating, previous job still underway")

\* C2 (as claimed): no file is in per-file processing (staged, compressed,
\* uploaded, deleted) while a live process holds a descriptor on its path
\* in the log directory.
C2_NoProcessingWhileHeldOpen ==
    \A r \in Runs :
        run[r].pc \in Steps => HeldOpen({run[r].ready_file}, procs) = {}

\* C3: two invocations are never both past lock acquisition, and the one
\* that is past it holds the lock.
C3_MutualExclusion ==
    /\ \A r1, r2 \in Runs :
         (run[r1].pc \in PastLock /\ run[r2].pc \in PastLock) => r1 = r2
    /\ \A r \in Runs : run[r].pc \in PastLock => lock_owner = r

\* C3 witness: an invocation was refused the lock while the other one is
\* past lock acquisition.
C3_Witness ==
    \E r1, r2 \in Runs :
        r1 # r2 /\ run[r1].pc \in PastLock /\ run[r2].acquired = "no"

ProbeErrnos(r) == {p[3] : p \in run[r].probes} \ {0}

AbortedBeforeRenaming(r) ==
    /\ run[r].pc = "done"
    /\ run[r].outcome = "returned"
    /\ run[r].iterated = <<>>
    /\ \E l \in run[r].log :
         /\ l.level = "error"
         /\ l.msg = "Cannot send signal to some processes, aborting"
         /\ l.args = {p[1] : p \in {q \in run[r].probes : q[3] \notin {0, ESRCH}}}

\* C4 (as claimed): if the probe with signal 0 fails for any pid of any
\* configured name, with ESRCH or with EPERM, the run is aborted: the name
\* is logged and the run returns without renaming a file.
C4_AnyProbeFailureAborts ==
    \A r \in Runs : ProbeErrnos(r) # {} => AbortedBeforeRenaming(r)

\* C4 (amended): the run is aborted, with the names logged and no file
\* renamed, exactly when a probe fails with an error other than ESRCH; a
\* probe that fails with ESRCH is ignored and the run goes on.
C4_UnsignalableAborts ==
    \A r \in Runs :
        /\ ProbeErrnos(r) \ {ESRCH} # {} => AbortedBeforeRenaming(r)
        /\ (ProbeErrnos(r) \subseteq {ESRCH} /\ run[r].pc # "probe") =>
              /\ run[r].unkillable_processes = {}
              /\ ~HasLog(r, "error", "Cannot send signal to some processes, aborting")

\* C4 witness: a probe failed with EPERM and the run has ended.
C4_Witness ==
    \E r \in Runs : EPERM \in ProbeErrnos(r) /\ run[r].pc = "done"

\* The candidates renamed by the iterations before the i-th.
RenamedBefore(r, i) == {j \in 1..(i - 1) : run[r].iterated[j].renamed}

\* Did the target of the i-th iteration exist when the loop reached it?
ExistedWhenHandled(r, i) ==
    run[r].iterated[i].rotated \in
        (DOMAIN run[r].listing \ {run[r].iterated[j].original : j \in RenamedBefore(r, i)})
        \cup {run[r].iterated[j].rotated : j \in RenamedBefore(r, i)}

TimesRenamed(r, f) ==
    Cardinality({i \in 1..Len(run[r].iterated) :
                   run[r].iterated[i].original = f /\ run[r].iterated[i].renamed})

\* The rename loop of r has just ended: nothing else has touched the directory.
AtEndOfRenames(r) == run[r].pc = "rename" /\ run[r].filename_mapping = {}

\* C5 (as claimed): after the rename phase a candidate whose target name
\* existed before the run is untouched, and every other candidate has been
\* renamed exactly once to name + suffix, in every iteration order.
C5_PreExistingTargetUntouched ==
    \A r \in Runs :
        run[r].filename_mapping = {} =>
            \A f \in run[r].files_to_rotate :
                LET t == f \o run[r].rotation_suffix
                IN  IF t \in DOMAIN run[r].listing
                    THEN /\ TimesRenamed(r, f) = 0
                         /\ AtEndOfRenames(r) =>
                              (f \in DOMAIN logdir /\ logdir[f] = run[r].listing[f])
                    ELSE /\ TimesRenamed(r, f) = 1
                         /\ AtEndOfRenames(r) =>
                              (t \in DOMAIN logdir /\ logdir[t] = run[r].listing[f])

\* C5 (amended): the loop reaches every candidate exactly once; a candidate
\* whose target name exists when the loop reaches it is untouched, every
\* other one is renamed once to name + suffix, with the one suffix of the
\* run.  So a candidate whose target did not exist before the run is
\* renamed, and one whose target existed before the run is untouched unless
\* that target is itself a candidate that was renamed earlier in the loop.
C5_RenamedUnlessTargetExists ==
    \A r \in Runs :
        run[r].filename_mapping = {} =>
            LET it == run[r].iterated
            IN  /\ Len(it) = Cardinality(run[r].files_to_rotate)
                /\ {it[i].original : i \in 1..Len(it)} = run[r].files_to_rotate
                /\ \A i \in 1..Len(it) :
                     /\ it[i].rotated = it[i].original \o run[r].rotation_suffix
                     /\ it[i].renamed <=> ~ExistedWhenHandled(r, i)
                     /\ it[i].rotated \notin DOMAIN run[r].listing => it[i].renamed
                     /\ (it[i].rotated \in DOMAIN run[r].listing
                         /\ it[i].rotated \notin run[r].files_to_rotate) => ~it[i].renamed
                     /\ AtEndOfRenames(r) =>
                          LET now == IF it[i].renamed THEN it[i].rotated ELSE it[i].original
                          IN  now \in DOMAIN logdir
                              /\ logdir[now] = run[r].listing[it[i].original]

\* C5 witness: two candidates, the target of one being the other, both
\* renamed because the loop reached the target first.
C5_Witness ==
    \E r \in Runs :
        /\ AtEndOfRenames(r)
        /\ Len(run[r].iterated) = 2
        /\ run[r].iterated[1].renamed /\ run[r].iterated[2].renamed
        /\ run[r].iterated[2].rotated = run[r].iterated[1].original

\* C6: no rename replaces an existing file: during the rename phase every
\* file of the directory is still there with its content, under its name
\* or under name + suffix; a candidate whose target exists is skipped with a
\* warning and is not in the rotated set.
C6_NeverRenamesOntoExisting ==
    \A r \in Runs :
        /\ ~run[r].overwrote
        /\ run[r].pc = "rename" =>
             /\ Cardinality(DOMAIN logdir) = Cardinality(DOMAIN run[r].listing)
             /\ \A n \in DOMAIN run[r].listing :
                  \E m \in {n, n \o run[r].rotation_suffix} :
                      m \in DOMAIN logdir /\ logdir[m] = run[r].listing[n]
        /\ run[r].rotated_files =
             {run[r].iterated[i].rotated :
                i \in {j \in 1..Len(run[r].iterated) : run[r].iterated[j].renamed}}
        /\ \A i \in 1..Len(run[r].iterated) :
             ~run[r].iterated[i].renamed =>
                 /\ ExistedWhenHandled(r, i)
                 /\ HasLogAbout(r, "warning", "Did not rotate file, target already existed",
                                {Join(options.log_directory, run[r].iterated[i].rotated)})

\* C6 witness: a candidate was skipped because its target existed.
C6_Witness ==
    \E r \in Runs :
        /\ run[r].pc = "rename"
        /\ \E i \in 1..Len(run[r].iterated) : ~run[r].iterated[i].renamed

FailedFiles(r) == {e[1] : e \in {d \in run[r].did : d[2] = "failed"}}

HandledFiles(r) == {e[1] : e \in run[r].did}

\* C9: an exception of the per-file sequence never leaves the run: it is
\* logged with the file name, the other closed files of the scan are still
\* processed, and the loop goes on.
C9_PerFileErrorsAreContained ==
    \A r \in Runs :
        /\ run[r].outcome = "raised" => run[r].raised_at \notin Steps \cup {"ready"}
        /\ \A f \in FailedFiles(r) :
             /\ run[r].outcome = "raised" => run[r].raised_at = "poll"
             /\ HasLogAbout(r, "error", "Unexpected error processing", {f})
        /\ (FailedFiles(r) # {} /\ run[r].pc \in {"poll", "done"}) =>
             /\ run[r].todo = {}
             /\ HandledFiles(r) = run[r].rotated_files \ run[r].open_files

\* C9 witness: a file failed in one scan, the loop went on to a later scan
\* and another file is being processed to the end.
C9_Witness ==
    \E r \in Runs :
        /\ run[r].polls >= 2
        /\ run[r].pc = "unlink"
        /\ FailedFiles(r) # {}
        /\ run[r].ready_file \notin FailedFiles(r)

GaveUp(r) == HasLog(r, "error", "Gave up waiting for files to close")

\* C10: the run is abandoned exactly when more than
\* MAX_CHECKS_WITHOUT_FILE_CLOSED consecutive scans found no closed file;
\* the counter is 0 after a scan that found one; at abandonment the open
\* files are logged and each is on disk under its rotated name, untouched.
C10_GivesUpAfterMaximum ==
    \A r \in Runs :
        /\ GaveUp(r) <=> (run[r].idle > MAX_CHECKS_WITHOUT_FILE_CLOSED /\ run[r].pc = "done")
        /\ run[r].idle <= MAX_CHECKS_WITHOUT_FILE_CLOSED + 1
        /\ run[r].pc \in {"poll", "done"} =>
             run[r].checks_without_closed_files = run[r].idle
        /\ GaveUp(r) =>
             /\ run[r].outcome = "returned"
             /\ run[r].open_files # {}
             /\ HasLogAbout(r, "error", "Gave up waiting for files to close", run[r].open_files)
             /\ \A f \in run[r].open_files :
                  /\ f \in DOMAIN logdir
                  /\ \E i \in 1..Len(run[r].iterated) :
                       /\ run[r].iterated[i].rotated = f
                       /\ logdir[f] = run[r].listing[run[r].iterated[i].original]
                  /\ f \notin HandledFiles(r)
                  /\ f \notin DOMAIN spool
                  /\ gzip_path(f) \notin DOMAIN logdir
                  /\ gzip_path(f) \notin DOMAIN s3

\* C10 witness: a run was abandoned, after a first scan that had found a
\* closed file, on its scan number MAX_CHECKS_WITHOUT_FILE_CLOSED + 2.
C10_Witness ==
    \E r \in Runs :
        /\ GaveUp(r)
        /\ HandledFiles(r) # {}
        /\ run[r].polls = MAX_CHECKS_WITHOUT_FILE_CLOSED + 2

\* C7 (as claimed): the times at which two consecutive wait() calls return
\* are never less than minimum_interval apart.
C7_ReturnsAtLeastIntervalApart ==
    t_call.n >= 2 => t_call.returned - t_prev_ret >= t_min

\* C8 (as claimed): the first wait() never sleeps; a later wait(), with
\* elapsed = clock at the call - recorded release point, does not sleep
\* when elapsed >= minimum_interval and sleeps minimum_interval - elapsed
\* otherwise, whatever the clock was at the first call.
C8_SleepsExactlyTheDeficit ==
    /\ t_call.n = 1 => t_call.slept = None
    /\ t_call.n >= 2 =>
         LET elapsed == t_call.now - t_call.last
         IN  /\ elapsed >= t_min => t_call.slept = None
             /\ elapsed < t_min => t_call.slept = t_min - elapsed

\* The positions of a run before its rename phase.
BeforeRenamePhase == {"start", "not_acquired", "resolve", "probe"}

\* The run was refused the lock, or its pre-flight check found a process
\* it cannot signal.
EndsEarly(r) == run[r].acquired = "no" \/ run[r].unkillable_processes # {}

\* The run has renamed no file, sent no reopen signal and has staged,
\* compressed, uploaded or deleted nothing.
NothingDone(r) ==
    /\ run[r].iterated = <<>>
    /\ run[r].rotated_files = {}
    /\ run[r].signalled = {}
    /\ run[r].did = {}
    /\ run[r].polls = 0

\* C11: a run that ends before the rename phase, because the lock was
\* unavailable or because the pre-flight check found an unsignalable
\* process, never gets past the pre-flight check and has done nothing; and
\* no step a run takes before its rename phase changes the log directory,
\* the spool directory or the bucket, or delivers a reopen signal.
C11_EarlyEndTouchesNothing ==
    /\ [](\A r \in Runs :
            EndsEarly(r) => (run[r].pc \in BeforeRenamePhase \cup {"done"} /\ NothingDone(r)))
    /\ [][\A r \in Runs :
            (run[r].pc \in BeforeRenamePhase /\ run'[r] # run[r]) =>
                /\ logdir' = logdir
                /\ spool' = spool
                /\ s3' = s3
                /\ \A pid \in PIDs : procs'[pid].pending => procs[pid].pending]_vars

\* C11 witness: one run has ended refused the lock, the other has ended
\* aborted by its pre-flight check, and the log directory is one of the
\* directories the runs started from.
C11_Witness ==
    \E r1, r2 \in Runs :
        /\ run[r1].pc = "done" /\ run[r1].acquired = "no"
        /\ AbortedBeforeRenaming(r2)
        /\ logdir \in InitialDirs

\* The run is in its drain loop, or has left it.
InDrainLoop(r) ==
    \/ run[r].pc \in {"poll", "ready"} \cup Steps
    \/ run[r].pc = "done" /\ run[r].polls >= 1

\* The content the rotated file f of run r had under its original name.
SourceOf(r, f) ==
    LET i == CHOOSE j \in 1..Len(run[r].iterated) : run[r].iterated[j].rotated = f
    IN  run[r].listing[run[r].iterated[i].original]

\* Nothing of the per-file sequence has touched the rotated file f of run r.
Untouched(r, f) ==
    /\ f \in DOMAIN logdir
    /\ logdir[f] = SourceOf(r, f)
    /\ f \notin DOMAIN spool
    /\ gzip_path(f) \notin DOMAIN logdir
    /\ gzip_path(f) \notin DOMAIN s3

\* C12: a file is in the per-file sequence only after a scan of the same
\* run returned it in its closed set: the file being processed is in the
\* closed set of the latest scan and not in its open set, the two sets of
\* a scan are disjoint, no file of the open set has a step of the sequence
\* on record, and every file of the open set is on disk as it was renamed.
C12_ProcessedOnlyAfterReportedClosed ==
    \A r \in Runs :
        /\ run[r].pc \in Steps =>
              /\ run[r].polls >= 1
              /\ run[r].ready_file \in run[r].closed_files
              /\ run[r].ready_file \notin run[r].open_files
        /\ run[r].closed_files \cap run[r].open_files = {}
        /\ HandledFiles(r) \cap run[r].open_files = {}
        /\ DOMAIN run[r].handed \cap run[r].open_files = {}
        /\ InDrainLoop(r) => \A f \in run[r].open_files : Untouched(r, f)

\* C12 witness: a file reported closed is being uploaded while another
\* rotated file of the run is in the open set of the same scan.
C12_Witness ==
    \E r \in Runs :
        /\ run[r].pc = "upload"
        /\ run[r].open_files # {}
        /\ run[r].ready_file \notin run[r].open_files

\* C13: in the drain loop the files still draining and the files handed to
\* the per-file sequence are disjoint, with the files of the current scan
\* still to be handed they are exactly the files renamed by the run (at
\* the head of the loop none is still to be handed), and no file is handed
\* more than once, whether its processing failed or not.
C13_DrainingAndHandedPartitionRotated ==
    \A r \in Runs :
        /\ \A f \in DOMAIN run[r].handed : run[r].handed[f] = 1
        /\ InDrainLoop(r) =>
              /\ run[r].open_files \cap DOMAIN run[r].handed = {}
              /\ run[r].todo \cap DOMAIN run[r].handed = {}
              /\ run[r].todo \cap run[r].open_files = {}
              /\ run[r].open_files \cup DOMAIN run[r].handed \cup run[r].todo
                    = run[r].rotated_files
              /\ run[r].rotated_files =
                    {run[r].iterated[i].rotated :
                       i \in {j \in 1..Len(run[r].iterated) : run[r].iterated[j].renamed}}
              /\ run[r].pc \in {"poll", "done"} =>
                    /\ run[r].todo = {}
                    /\ HandledFiles(r) = DOMAIN run[r].handed

\* C13 witness: at the head of the loop, after a scan whose closed file
\* failed in processing, with another file still draining.
C13_Witness ==
    \E r \in Runs :
        /\ run[r].pc = "poll"
        /\ run[r].polls >= 1
        /\ FailedFiles(r) # {}
        /\ run[r].open_files # {}

\* C14: whatever the point the copy has reached, a file found under a name
\* in the spool directory holds the complete content of the file it was
\* copied from; while the copy is still being written, it is in the
\* temporary directory and the target name does not exist.
C14_NoPartialFileUnderTarget ==
    /\ \A f \in DOMAIN spool :
         \E r \in Runs : f \in run[r].rotated_files /\ spool[f] = SourceOf(r, f)
    /\ \A r \in Runs :
         /\ run[r].pc = "copy" => run[r].ready_file \notin DOMAIN spool
         /\ run[r].pc # "copy" => run[r].temporary_path = <<>>

\* C14 witness: the copy is half written (the temporary file holds fewer
\* bytes than the source) and a reader looks at the spool directory.
C14_Witness ==
    \E r \in Runs :
        /\ run[r].pc = "copy"
        /\ temporary_filename \in DOMAIN run[r].temporary_path
        /\ Len(run[r].temporary_path[temporary_filename])
              < Len(logdir[run[r].ready_file])

\* C15: at every point of a call the closed and the open set are disjoint
\* and their union is the input set; a name is in the open set exactly
\* when os.readlink returned it as the target of a descriptor: every name
\* in the open set was the target of a descriptor of a process of the
\* table, and when the call returns every descriptor a live process still
\* holds has been read; a process or descriptor that disappears during the
\* scan does not make the call raise; on a table that did not change the
\* result is that of the one-step check_for_open_files.
C15_ScanPartitionsItsInput ==
    /\ scan.status # "idle" =>
          /\ scan.closed_handles \cap scan.open_handles = {}
          /\ scan.closed_handles \cup scan.open_handles = scan.filenames
          /\ scan.open_handles = scan.filenames \cap scan.seen
          /\ scan.seen \subseteq UNION {scan.table[pid].fds : pid \in PIDs}
    /\ scan.status = "returned" =>
          /\ \A pid \in process_ids(procs) : procs[pid].fds \subseteq scan.seen
          /\ procs = scan.table =>
                <<scan.closed_handles, scan.open_handles>>
                    = check_for_open_files(scan.filenames, procs)
    /\ scan.status = "raised" => scan.errno \notin {0, ENOENT}

\* C15 witness: a call has returned a non-empty open set and a non-empty
\* closed set after a process or a descriptor disappeared during the scan.
C15_Witness ==
    /\ scan.status = "returned"
    /\ scan.vanished
    /\ scan.open_handles # {}
    /\ scan.closed_handles # {}

\* The run ended by the IOError of a resolution of process names: it held
\* the lock, and no other statement after the lock raises an IOError.
ResolutionRaised(r) ==
    run[r].acquired = "yes" /\ run[r].outcome = "raised" /\ run[r].exc = "IOError"

\* C16 (as claimed): a process that exits between the listing of /proc and
\* the read of its comm file is passed over: neither the resolution of the
\* pre-flight check nor the one after the renames raises.
C16_ResolutionToleratesExit ==
    \A r \in Runs : ~ResolutionRaised(r)

CompressSteps == {"compress", "copyfileobj", "unlink_raw"}

\* C17: when compress_file has returned, the path it returned is the path
\* it was given followed by ".gz", a file is there, no file is at the path
\* it was given, and the file decompresses to the content the original
\* had; while compress_file is at work the original is there, and the step
\* that removes it is taken when the archive is complete.
C17_CompressedThenDeleted ==
    /\ [](\A r \in Runs :
            LET f == run[r].ready_file
            IN  /\ run[r].pc = "upload" =>
                      /\ gzip_path(f) = f \o <<".gz">>
                      /\ gzip_path(f) \in DOMAIN logdir
                      /\ f \notin DOMAIN logdir
                      /\ Gunzip(logdir[gzip_path(f)]) = SourceOf(r, f)
                /\ run[r].pc \in CompressSteps =>
                      (f \in DOMAIN logdir /\ logdir[f] = SourceOf(r, f)))
    /\ [][\A r \in Runs :
            LET f == run[r].ready_file
            IN  (run[r].pc \in CompressSteps /\ f \in DOMAIN logdir /\ f \notin DOMAIN logdir') =>
                    /\ gzip_path(f) \in DOMAIN logdir
                    /\ Gunzip(logdir[gzip_path(f)]) = logdir[f]
                    /\ logdir' = Unlinked(logdir, f)]_vars

\* C17 witness: compress_file has returned for a file of two blocks.
C17_Witness ==
    \E r \in Runs :
        /\ run[r].pc = "upload"
        /\ Len(SourceOf(r, run[r].ready_file)) = 2
        /\ <<run[r].ready_file, "compressed">> \in run[r].did

\* The step of the per-file sequence is on record for file f of run r.
Has(r, f, step) == <<f, step>> \in run[r].did

\* C18: the steps of a file come in the order stage, compress, upload,
\* delete, each after the one before succeeded: a file is compressed after
\* it was staged or found empty, and staged only when it is not empty;
\* it is uploaded after it was compressed, and what is uploaded is the
\* archive; the archive is deleted after the upload returned, so it is on
\* disk as long as it was not uploaded and deleted; after a failed staging
\* copy the rotated file is on disk as it was, without an archive.
C18_StepsInOrder ==
    \A r \in Runs :
        /\ \A f \in run[r].rotated_files :
             LET g == gzip_path(f)
                 source == SourceOf(r, f)
             IN  /\ Has(r, f, "staged") =>
                       (Len(source) > 0 /\ f \in DOMAIN spool /\ spool[f] = source)
                 /\ Len(source) = 0 => f \notin DOMAIN spool
                 /\ Has(r, f, "compressed") => (Has(r, f, "staged") <=> Len(source) > 0)
                 /\ Has(r, f, "uploaded") => Has(r, f, "compressed")
                 /\ Has(r, f, "deleted") => Has(r, f, "uploaded")
                 /\ g \in DOMAIN s3 => (Has(r, f, "uploaded") /\ s3[g] = Gzip(source))
                 /\ Has(r, f, "uploaded") => g \in DOMAIN s3
                 /\ (Has(r, f, "compressed") /\ ~Has(r, f, "deleted")) =>
                       (g \in DOMAIN logdir /\ logdir[g] = Gzip(source))
                 /\ Has(r, f, "deleted") => g \notin DOMAIN logdir
                 /\ (Has(r, f, "failed") /\ Len(source) > 0 /\ ~Has(r, f, "staged")) =>
                       /\ f \in DOMAIN logdir /\ logdir[f] = source
                       /\ g \notin DOMAIN logdir
                       /\ f \notin DOMAIN spool
        /\ LET f == run[r].ready_file
           IN  /\ run[r].pc = "copy" => (run[r].did = {d \in run[r].did : d[1] # f})
               /\ run[r].pc \in CompressSteps =>
                     (Has(r, f, "staged") <=> Len(SourceOf(r, f)) > 0)
               /\ run[r].pc = "upload" => (Has(r, f, "compressed") /\ ~Has(r, f, "uploaded"))
               /\ run[r].pc = "unlink" => (Has(r, f, "uploaded") /\ ~Has(r, f, "deleted"))
               /\ run[r].pc \in Steps => ~Has(r, f, "failed")

\* C18 witness: the upload of a staged and compressed file has failed and
\* the run has gone on: the archive is on disk, not in the bucket.
C18_Witness ==
    \E r \in Runs :
        \E f \in run[r].rotated_files :
            /\ run[r].pc \in {"poll", "done"}
            /\ Has(r, f, "staged")
            /\ Has(r, f, "compressed")
            /\ Has(r, f, "failed")
            /\ ~Has(r, f, "uploaded")
            /\ gzip_path(f) \in DOMAIN logdir

\* The pids the run holds for the configured names.
ResolvedPids(r) ==
    UNION {run[r].pids_for_processes[n] : n \in DOMAIN options.reopen_file_signals}

\* C19: the names are resolved again when every candidate of the rename
\* loop has been handled, and the signals go to the pids found then; a
\* signal is sent, and delivered, only by the step between the renames and
\* the first scan; when os.kill fails with ESRCH only, the run goes on to
\* its drain loop (or returns, with nothing renamed); when it fails with
\* another error, an OSError leaves rotate_log_files.
C19_SignalsAfterRenamesToFreshPids ==
    [][\A r \in Runs :
         /\ (run[r].pc = "rename" /\ run'[r].pc = "signal") =>
               /\ run[r].filename_mapping = {}
               /\ Len(run[r].iterated) = Cardinality(run[r].files_to_rotate)
               /\ run'[r].pids_for_processes =
                     running_processes_by_name(DOMAIN options.reopen_file_signals, procs)
         /\ run'[r].signalled # run[r].signalled =>
               (run[r].pc = "signal" /\ run[r].polls = 0)
         /\ \A pid \in PIDs :
               (procs'[pid].pending /\ ~procs[pid].pending) =>
                   \E q \in Runs : run[q].pc = "signal" /\ pid \in run'[q].signalled
         /\ (run[r].pc = "signal" /\ run'[r] # run[r]) =>
               LET errnos == {os_kill(pid, procs) : pid \in ResolvedPids(r)} \ {0}
               IN  IF errnos \subseteq {ESRCH}
                   THEN /\ run'[r].signalled = ResolvedPids(r)
                        /\ run'[r].kill_errnos = errnos
                        /\ run'[r].outcome # "raised"
                        /\ run'[r].polls = 0
                        /\ run'[r].open_files = run[r].rotated_files
                        /\ run'[r].pc = IF run[r].rotated_files # {} THEN "poll" ELSE "done"
                   ELSE /\ run'[r].outcome = "raised"
                        /\ run'[r].exc = "OSError"
                        /\ run'[r].signalled \subseteq ResolvedPids(r)]_vars

\* C19 witness: a process of the pre-flight check was gone at the second
\* resolution, another one exited before its signal was sent (ESRCH), and
\* the run is in its drain loop.
C19_Witness ==
    \E r \in Runs :
        /\ run[r].pc = "poll"
        /\ run[r].kill_errnos = {ESRCH}
        /\ {p[2] : p \in run[r].probes} # ResolvedPids(r)

\* The number of scans a run that renamed n files makes at most.
MaxPolls(n) == n * (MAX_CHECKS_WITHOUT_FILE_CLOSED + 1) + 1

\* More than the statements the per-file sequence takes for one file.
PerFile == 21

\* How far the per-file sequence of the file in hand is from its end: the
\* statements still to execute, each block of the staging copy counted.
Rank(r) ==
    LET pc == run[r].pc
        f == run[r].ready_file
        t == run[r].temporary_path
    IN  IF pc = "stage" THEN PerFile - 1
        ELSE IF pc = "copy"
             THEN 11 + Len(SourceOf(r, f))
                     - (IF temporary_filename \in DOMAIN t
                        THEN 1 + Len(t[temporary_filename]) ELSE 0)
        ELSE IF pc = "compress" THEN 6
        ELSE IF pc = "copyfileobj" THEN 5
        ELSE IF pc = "unlink_raw" THEN 4
        ELSE IF pc = "upload" THEN 3
        ELSE IF pc = "unlink" THEN 2
        ELSE IF pc = "ready" THEN 1
        ELSE 0

\* A measure of what a run in its drain loop has still to do: the scans it
\* may still make, then the closed files of the scan still to process,
\* then the statements left for the file in hand.
Variant(r) ==
    IF run[r].pc = "done" THEN 0
    ELSE LET n == Cardinality(run[r].rotated_files)
         IN  (MaxPolls(n) - run[r].polls) * PerFile * (n + 1)
             + Cardinality(run[r].todo) * PerFile
             + Rank(r)

\* C20: the drain loop ends whatever the processes do and whatever the
\* outcome of the per-file steps: every step of a run in its drain loop
\* takes the measure Variant down, and the measure is never negative; a
\* scan either takes a file out of the open set or leaves the set as it is
\* and finds no closed file, and the counter is then incremented; a run
\* that renamed n files makes at most
\* n * (MAX_CHECKS_WITHOUT_FILE_CLOSED + 1) + 1 scans, none when n = 0.
C20_DrainLoopTerminates ==
    /\ [](\A r \in Runs :
            /\ run[r].polls <= MaxPolls(Cardinality(run[r].rotated_files))
            /\ run[r].rotated_files = {} => run[r].polls = 0
            /\ run[r].pc = "poll" => run[r].open_files # {}
            /\ InDrainLoop(r) => Variant(r) >= 0)
    /\ [][\A r \in Runs :
            /\ (InDrainLoop(r) /\ run'[r] # run[r]) => Variant(r)' < Variant(r)
            /\ (run[r].pc = "poll" /\ run'[r].pc = "ready") =>
                  /\ run'[r].polls = run[r].polls + 1
                  /\ run'[r].open_files \subseteq run[r].open_files
                  /\ \/ run'[r].open_files # run[r].open_files
                     \/ run'[r].closed_files = {}
            /\ (run[r].pc = "ready" /\ run'[r].pc \in {"poll", "done"}) =>
                  run'[r].checks_without_closed_files =
                      IF run[r].closed_files = {}
                      THEN run[r].checks_without_closed_files + 1
                      ELSE 0
            /\ run'[r].checks_without_closed_files # run[r].checks_without_closed_files =>
                  run[r].pc \in {"ready", "signal"}]_vars

\* C20 witness: a run that renamed two files has ended after its scan
\* number MAX_CHECKS_WITHOUT_FILE_CLOSED + 2, one file closed at the
\* first scan and the other never.
C20_Witness ==
    \E r \in Runs :
        /\ run[r].pc = "done"
        /\ Cardinality(run[r].rotated_files) = 2
        /\ run[r].polls = MAX_CHECKS_WITHOUT_FILE_CLOSED + 2
        /\ run[r].open_files # {}

====
